---- MODULE Spec2Model ----
\* Model of toil/jobStores/utils.py: the retry() generator, the attempt
\* guards it yields (repeated_attempt / single_attempt) and a caller that
\* iterates over the generator and runs one operation inside each guard.
\* Time is counted in whole ticks of the clock read by time.time(): the
\* clock moves at every point of the program (Tick), and time.sleep(d)
\* moves it by d or more.
\* Spec has the documented caller, whose loop a propagated failure leaves;
\* SpecCatching adds a caller that catches such a failure and iterates on.
EXTENDS Integers, Sequences, FiniteSets, TLC

\* ---------------------------------------------------------------- bounds
MaxLen      == 2   \* longest delay schedule passed to retry()
MaxDelay    == 1   \* largest delay value in a schedule
MaxTimeout  == 3   \* largest timeout passed to retry()
MaxClock    == 1   \* ticks (other than requested sleep) move the clock up to this value
MaxGuards   == 3   \* guards handed out before the caller stops asking
MaxResumes  == 1   \* times the caller catches a propagated failure and iterates on
MaxAttemptNum == 5 \* largest attemptNum / maxAttempts passed to log_component_failure

\* ------------------------------------------------------- failure values
Exceptions  == {"RuntimeError", "IOError"}     \* instances of Exception
BaseOnly    == {"KeyboardInterrupt"}           \* BaseException, not Exception
Failures    == Exceptions \cup BaseOnly
NoFailure   == "none"
\* What the interpreter raises when StopIteration escapes a generator body.
GeneratorError == "RuntimeError: generator raised StopIteration"
NoTime      == -1
NoDelay     == -1

VARIABLES
  delays,      \* argument: the delay schedule (a finite sequence)
  timeout,     \* argument: the timeout
  predicate,   \* argument: function from failure to BOOLEAN
  pc,          \* position of the single thread of control
  path,        \* "none" before the body runs, then "repeated" or "single"
  clock,       \* time.time()
  created,     \* clock value when retry() was called
  started,     \* clock value when the generator body began to run
  expiration,  \* local variable expiration (NoTime while unset)
  go,          \* TRUE iff the list go is non-empty
  delay,       \* local variable delay of the generator
  taken,       \* number of elements taken from iter(delays)
  guards,      \* number of guards yielded so far
  hist,        \* one record per guard: its delay, birth time, outcome, failure
  sleeps,      \* calls of time.sleep: <<round, seconds asked, clock before>>
  notices,     \* calls of log.info: <<round, failure, delay>>
  predCalls,   \* calls of predicate: <<round, failure>>
  propagated,  \* failures that reached the caller: <<round, failure>>
  resumes,     \* times the caller iterated on after a propagated failure
  helper       \* a call of one of the deletion logging helpers (see NoCall)

vars == <<delays, timeout, predicate, pc, path, clock, created, started,
          expiration, go, delay, taken, guards, hist, sleeps, notices,
          predCalls, propagated, resumes, helper>>

args == <<delays, timeout, predicate>>

\* ------------------------------------------------------------- helpers
RECURSIVE SeqsUpTo(_, _)
SeqsUpTo(S, n) ==
  IF n = 0 THEN {<<>>}
  ELSE LET shorter == SeqsUpTo(S, n - 1)
       IN shorter \cup {Append(s, x) : s \in {t \in shorter : Len(t) = n - 1}, x \in S}

\* never(exception): the default predicate.
never == [e \in Failures |-> FALSE]

\* "except Exception as e": does the handler of repeated_attempt catch e?
IsExceptionAll(e) == TRUE
IsException(e) == e \in Exceptions

\* "if timeout > 0": does retry() take the repeating branch?
RepeatsFromZero(t) == t >= 0
Repeats(t) == t > 0

\* "expiration = time.time() + timeout"
ExpirationAtCreation(now, t) == created + t
Expiration(now, t) == now + t

\* "time.time() + delay < expiration and predicate(e)"; the predicate is
\* only evaluated when the time test passes (short-circuit and).
TimeLeftIgnoresDelay(now, d, exp) == now < exp
TimeLeftAlways(now, d, exp) == TRUE
TimeLeftLax(now, d, exp) == now + d <= exp
TimeLeft(now, d, exp) == now + d < exp
TryAgainTimeOnly(now, d, exp, p, e) == TimeLeft(now, d, exp)
TryAgainEither(now, d, exp, p, e) == TimeLeft(now, d, exp) \/ p[e]
TryAgain(now, d, exp, p, e) == TimeLeft(now, d, exp) /\ p[e]

\* bare "raise" in the handler: the failure that leaves the guard.
ReraiseWrapped(e) == GeneratorError
Reraise(e) == e

\* "next(delays, delay)": the next element of the iterator, or the default.
HasNext(ds, n) == n < Len(ds)
NextDelayRestart(ds, n, cur) == IF HasNext(ds, n) THEN ds[n + 1] ELSE ds[1]
NextDelay(ds, n, cur) == IF HasNext(ds, n) THEN ds[n + 1] ELSE cur
NextTakenStuck(ds, n) == n
NextTaken(ds, n) == IF HasNext(ds, n) THEN n + 1 ELSE n

\* go.pop() on the one-element list go: the list is empty afterwards.
PopNothing(g) == g
PopIfInTime(g) == IF clock < expiration THEN FALSE ELSE g
Pop(g) == FALSE

\* The guard repeated_attempt(delay) yielded at time now; exit is the clock
\* value at which its scope was left, decided the value time.time()
\* returned in line 92 (NoTime: not read).
Guard(d, now) ==
  [delay |-> d, at |-> now, exit |-> NoTime, decided |-> NoTime,
   outcome |-> "open", err |-> NoFailure]

\* The parameter delay of the guard of round k (bound when it was created).
GuardDelayFirst(h, k) == h[1].delay
GuardDelay(h, k) == h[k].delay

\* The scope of guard k is left at time t, normally or with failure e.
Leave(h, k, o, e, t) == [h EXCEPT ![k].outcome = o, ![k].err = e, ![k].exit = t]

\* The handler of guard k reads the clock in line 92.
Read(h, k, t) == [h EXCEPT ![k].decided = t]

\* The handler of guard k reaches its verdict o.
Mark(h, k, o) == [h EXCEPT ![k].outcome = o]

\* ------------------------------------------------- the logging helpers
\* "if attemptNum >= maxAttempts": the give-up decision.
GiveUpPast(attemptNum, maxAttempts) == attemptNum > maxAttempts
GiveUp(attemptNum, maxAttempts) == attemptNum >= maxAttempts

\* What log_component_failure writes, as <<level, message>> records:
\* log.exception (which logs at error level), then the verdict.
ComponentFailureLog(attemptNum, maxAttempts) ==
  << <<"error", "exception raised during deletion">>,
     IF GiveUp(attemptNum, maxAttempts)
     THEN <<"error", "too many attempts, giving up">>
     ELSE <<"debug", "retrying deletion">> >>

\* What log_delete_completed writes: the if / elif / elif chain.
DeleteCompletedLogFirstWins(existed, failure) ==
  IF existed THEN << <<"info", "successfully deleted">> >>
  ELSE IF ~existed THEN << <<"info", "no job store found">> >>
  ELSE IF failure THEN << <<"error", "completed with errors">> >>
  ELSE <<>>
DeleteCompletedLog(existed, failure) ==
  IF existed /\ ~failure THEN << <<"info", "successfully deleted">> >>
  ELSE IF ~existed THEN << <<"info", "no job store found">> >>
  ELSE IF failure THEN << <<"error", "completed with errors">> >>
  ELSE <<>>

\* A pending call of a helper with its arguments; hasMessage tells whether
\* the failure e passed to log_component_failure has a "message" attribute
\* (every exception on Python 2, none of the built-in ones on Python 3);
\* log and result are what the call has written and returned or raised
\* ("none": nothing yet).
HelperCall(a, m, x, f, h) ==
  [pc |-> "ready", attemptNum |-> a, maxAttempts |-> m, existed |-> x,
   failure |-> f, hasMessage |-> h, log |-> <<>>, result |-> "none"]

\* No helper is being called.
NoCall == [HelperCall(0, 0, FALSE, FALSE, TRUE) EXCEPT !.pc = "idle"]

\* ---------------------------------------------------------------- Init
\* State right after the call retry(delays, timeout, predicate): a generator
\* object exists, none of the body has run.
Init ==
  /\ helper = NoCall
  /\ delays \in SeqsUpTo(0..MaxDelay, MaxLen)
  /\ timeout \in 0..MaxTimeout
  /\ predicate \in [Failures -> BOOLEAN]
  /\ pc = "created"
  /\ path = "none"
  /\ clock = 0
  /\ created = 0
  /\ started = NoTime
  /\ expiration = NoTime
  /\ go = FALSE
  /\ delay = NoDelay
  /\ taken = 0
  /\ guards = 0
  /\ hist = <<>>
  /\ sleeps = <<>>
  /\ notices = <<>>
  /\ predCalls = <<>>
  /\ propagated = <<>>
  /\ resumes = 0

\* ------------------------------------------------------------- actions
\* A tick passes.  The clock moves wherever the program is: before the
\* first next(), inside the scope of a guard, in the handler before the
\* clock is read, while predicate(e) or log.info runs, and while the caller
\* is between two guards.  Once the sequence has ended the clock is not
\* read again.
Tick ==
  /\ pc \notin {"finished", "error"}
  /\ clock < MaxClock
  /\ clock' = clock + 1
  /\ UNCHANGED <<args, helper, pc, path, created, started, expiration, go, delay, taken,
                 guards, hist, sleeps, notices, predCalls, propagated, resumes>>

\* First next() on the generator, repeating branch, non-empty schedule:
\* lines 85, 100-104 run up to the first yield.
FirstRepeated ==
  /\ pc = "created"
  /\ Repeats(timeout)
  /\ Len(delays) > 0
  /\ path' = "repeated"
  /\ started' = clock
  /\ go' = TRUE
  /\ expiration' = Expiration(clock, timeout)
  /\ delay' = delays[1]
  /\ taken' = 1
  /\ guards' = 1
  /\ hist' = <<Guard(delays[1], clock)>>
  /\ pc' = "inScope"
  /\ UNCHANGED <<args, helper, clock, created, sleeps, notices, predCalls, propagated, resumes>>

\* First next(), repeating branch, empty schedule: next(delays) raises
\* StopIteration inside the generator body.  Depending on the interpreter
\* that either ends the generator silently or surfaces as a RuntimeError.
FirstEmptyYields ==
  /\ pc = "created"
  /\ Repeats(timeout)
  /\ Len(delays) = 0
  /\ path' = "repeated"
  /\ started' = clock
  /\ go' = TRUE
  /\ expiration' = Expiration(clock, timeout)
  /\ delay' = 0
  /\ guards' = 1
  /\ hist' = <<Guard(0, clock)>>
  /\ pc' = "inScope"
  /\ UNCHANGED <<args, helper, clock, created, taken, sleeps, notices, predCalls,
                 propagated, resumes>>

FirstEmpty ==
  /\ pc = "created"
  /\ Repeats(timeout)
  /\ Len(delays) = 0
  /\ path' = "repeated"
  /\ started' = clock
  /\ go' = TRUE
  /\ expiration' = Expiration(clock, timeout)
  /\ \/ /\ pc' = "error"
        /\ propagated' = Append(propagated, <<0, GeneratorError>>)
     \/ /\ pc' = "finished"
        /\ UNCHANGED propagated
  /\ UNCHANGED <<args, helper, clock, created, delay, taken, guards, hist, sleeps,
                 notices, predCalls, resumes>>

\* First next(), timeout not positive: lines 107-111, one single_attempt.
FirstSingle ==
  /\ pc = "created"
  /\ ~Repeats(timeout)
  /\ path' = "single"
  /\ started' = clock
  /\ guards' = 1
  /\ hist' = <<Guard(NoDelay, clock)>>
  /\ pc' = "inScope"
  /\ UNCHANGED <<args, helper, clock, created, expiration, go, delay, taken, sleeps,
                 notices, predCalls, propagated, resumes>>

\* The operation inside the guard completes normally.  repeated_attempt
\* runs its else clause (go.pop()); single_attempt does nothing.
Success ==
  /\ pc = "inScope"
  /\ go' = IF path = "repeated" THEN Pop(go) ELSE go
  /\ hist' = Leave(hist, guards, "success", NoFailure, clock)
  /\ pc' = "succeeded"
  /\ UNCHANGED <<args, helper, path, clock, created, started, expiration, delay, taken, guards,
                 sleeps, notices, predCalls, propagated, resumes>>

\* The operation inside the guard raises e.  repeated_attempt catches it
\* when it is an Exception; anything else, and everything raised inside
\* single_attempt, leaves the guard at once.
Failure ==
  /\ pc = "inScope"
  /\ \E e \in Failures :
       IF path = "repeated" /\ IsException(e)
       THEN /\ hist' = Leave(hist, guards, "caught", e, clock)
            /\ pc' = "caught"
            /\ UNCHANGED propagated
       ELSE /\ hist' = Leave(hist, guards, "propagated", e, clock)
            /\ pc' = "raised"
            /\ propagated' = Append(propagated, <<guards, e>>)
  /\ UNCHANGED <<args, helper, path, clock, created, started, expiration, go, delay, taken, guards,
                 sleeps, notices, predCalls, resumes>>

\* Line 92, left operand: the handler reads the clock and tests
\* time.time() + delay < expiration.  The predicate is called only when
\* the test passed (short-circuit and); lines 95-96 otherwise.
DecideEager ==
  /\ pc = "caught"
  /\ predCalls' = Append(predCalls, <<guards, hist[guards].err>>)
  /\ hist' = Read(hist, guards, clock)
  /\ pc' = "judging"
  /\ UNCHANGED <<args, helper, path, clock, created, started, expiration, go, delay, taken,
                 guards, sleeps, notices, propagated, resumes>>

Decide ==
  /\ pc = "caught"
  /\ LET e == hist[guards].err
         d == GuardDelay(hist, guards)
     IN IF TimeLeft(clock, d, expiration)
        THEN /\ predCalls' = Append(predCalls, <<guards, e>>)
             /\ hist' = Read(hist, guards, clock)
             /\ pc' = "judging"
             /\ UNCHANGED propagated
        ELSE /\ pc' = "raised"
             /\ hist' = Mark(Read(hist, guards, clock), guards, "propagated")
             /\ propagated' = Append(propagated, <<guards, Reraise(e)>>)
             /\ UNCHANGED predCalls
  /\ UNCHANGED <<args, helper, path, clock, created, started, expiration, go, delay, taken,
                 guards, sleeps, notices, resumes>>

\* Line 92, right operand: predicate(e) returns and the condition has its
\* value, computed with the clock value read before the call.
Judge ==
  /\ pc = "judging"
  /\ LET e == hist[guards].err
         d == GuardDelay(hist, guards)
     IN IF TryAgain(hist[guards].decided, d, expiration, predicate, e)
        THEN /\ pc' = "logging"
             /\ UNCHANGED <<hist, propagated>>
        ELSE /\ pc' = "raised"
             /\ hist' = Mark(hist, guards, "propagated")
             /\ propagated' = Append(propagated, <<guards, Reraise(e)>>)
  /\ UNCHANGED <<args, helper, path, clock, created, started, expiration, go, delay, taken,
                 guards, sleeps, notices, predCalls, resumes>>

\* Line 93: log.info('Got %s, trying again in %is.', e, delay)
LogNoticeSilent ==
  /\ pc = "logging"
  /\ pc' = "sleeping"
  /\ UNCHANGED <<args, helper, path, clock, created, started, expiration, go, delay, taken,
                 guards, hist, sleeps, notices, predCalls, propagated, resumes>>

LogNotice ==
  /\ pc = "logging"
  /\ notices' = Append(notices, <<guards, hist[guards].err, GuardDelay(hist, guards)>>)
  /\ pc' = "sleeping"
  /\ UNCHANGED <<args, helper, path, clock, created, started, expiration, go, delay, taken,
                 guards, hist, sleeps, predCalls, propagated, resumes>>

\* Line 94: time.sleep(delay) returns after delay or later; the guard then
\* swallows the failure.  A sleep record is <<round, delay, start, end>>.
Sleep ==
  /\ pc = "sleeping"
  /\ \E over \in 0..MaxClock :
       /\ over > 0 => clock + GuardDelay(hist, guards) + over <= MaxClock
       /\ clock' = clock + GuardDelay(hist, guards) + over
       /\ sleeps' = Append(sleeps, <<guards, GuardDelay(hist, guards), clock,
                                     clock + GuardDelay(hist, guards) + over>>)
  /\ hist' = Mark(hist, guards, "retried")
  /\ pc' = "suppressed"
  /\ UNCHANGED <<args, helper, path, created, started, expiration, go, delay, taken, guards,
                 notices, predCalls, propagated, resumes>>

\* The generator is resumed after its yield on the repeating branch:
\* line 105, then the loop test of line 103, then line 104 or the end.
ResumeRepeatedStops ==
  /\ delay' = NextDelay(delays, taken, delay)
  /\ taken' = NextTaken(delays, taken)
  /\ IF go /\ pc # "raised"
     THEN /\ guards < MaxGuards
          /\ guards' = guards + 1
          /\ hist' = Append(hist, Guard(NextDelay(delays, taken, delay), clock))
          /\ pc' = "inScope"
     ELSE /\ pc' = "finished"
          /\ UNCHANGED <<guards, hist>>

ResumeRepeated ==
  /\ delay' = NextDelay(delays, taken, delay)
  /\ taken' = NextTaken(delays, taken)
  /\ IF go
     THEN /\ guards < MaxGuards
          /\ guards' = guards + 1
          /\ hist' = Append(hist, Guard(NextDelay(delays, taken, delay), clock))
          /\ pc' = "inScope"
     ELSE /\ pc' = "finished"
          /\ UNCHANGED <<guards, hist>>

\* The generator is resumed after its only yield on the single branch.
ResumeSingle ==
  /\ pc' = "finished"
  /\ UNCHANGED <<delay, taken, guards, hist>>

Resume ==
  /\ IF path = "repeated" THEN ResumeRepeated ELSE ResumeSingle
  /\ UNCHANGED <<args, helper, path, clock, created, started, expiration, go, sleeps,
                 notices, predCalls, propagated>>

\* The caller's loop asks for the next guard after a swallowed failure.
NextAfterRetry ==
  /\ pc = "suppressed"
  /\ Resume
  /\ UNCHANGED resumes

\* The caller's loop asks for the next guard after a successful round.
NextAfterSuccess ==
  /\ pc = "succeeded"
  /\ Resume
  /\ UNCHANGED resumes

\* The caller caught the failure a guard propagated and iterates on (a
\* caller outside the documented "for attempt in retry(): with attempt:"
\* loop, which the failure would leave).
NextAfterRaise ==
  /\ pc = "raised"
  /\ resumes < MaxResumes
  /\ resumes' = resumes + 1
  /\ Resume

Next ==
  \/ Tick
  \/ FirstRepeated
  \/ FirstEmpty
  \/ FirstSingle
  \/ Success
  \/ Failure
  \/ Decide
  \/ Judge
  \/ LogNotice
  \/ Sleep
  \/ NextAfterRetry
  \/ NextAfterSuccess

\* The documented caller: a propagated failure leaves its loop.
Spec == Init /\ [][Next]_vars

NextCatching ==
  \/ Next
  \/ NextAfterRaise

\* A caller that may catch a propagated failure and ask for another guard.
SpecCatching == Init /\ [][NextCatching]_vars

\* The scenario of an operation that fails in every round under a predicate
\* that accepts every failure: retry(delays, timeout, lambda e: True) with a
\* positive timeout and a non-empty schedule.
InitFailing ==
  /\ Init
  /\ timeout > 0
  /\ Len(delays) > 0
  /\ \A e \in Failures : predicate[e]

NextFailing ==
  \/ Tick
  \/ FirstRepeated
  \/ Failure
  \/ Decide
  \/ Judge
  \/ LogNotice
  \/ Sleep
  \/ NextAfterRetry

\* The steps of the program itself (the clock apart).
StepFailing ==
  \/ FirstRepeated
  \/ Failure
  \/ Decide
  \/ Judge
  \/ LogNotice
  \/ Sleep
  \/ NextAfterRetry

\* The program is sequential and nothing it calls blocks for ever: the
\* first request is made, every attempt ends, every sleep returns and the
\* caller's loop asks for the next guard.
SpecFailing == InitFailing /\ [][NextFailing]_vars /\ WF_vars(StepFailing)

\* log_component_failure(e, log, name, attemptNum, maxAttempts) is called.
\* Evaluating e.message for the first log call raises AttributeError when
\* e has no such attribute: nothing is logged and nothing returned.
LogComponentFailure ==
  /\ helper.pc = "ready"
  /\ helper' = IF helper.hasMessage
               THEN [helper EXCEPT
                      !.pc = "componentFailureLogged",
                      !.log = ComponentFailureLog(helper.attemptNum, helper.maxAttempts),
                      !.result = IF GiveUp(helper.attemptNum, helper.maxAttempts)
                                 THEN "True" ELSE "False"]
               ELSE [helper EXCEPT
                      !.pc = "componentFailureRaised",
                      !.result = "AttributeError"]
  /\ UNCHANGED <<args, pc, path, clock, created, started, expiration, go, delay,
                 taken, guards, hist, sleeps, notices, predCalls, propagated, resumes>>

\* log_delete_completed(log, locator, existed, failure) is called; it
\* returns None.
LogDeleteCompleted ==
  /\ helper.pc = "ready"
  /\ helper' = [helper EXCEPT
                  !.pc = "deleteCompletedLogged",
                  !.log = DeleteCompletedLog(helper.existed, helper.failure),
                  !.result = "None"]
  /\ UNCHANGED <<args, pc, path, clock, created, started, expiration, go, delay,
                 taken, guards, hist, sleeps, notices, predCalls, propagated, resumes>>

\* A deletion routine is about to report through one of the helpers; no
\* scheduler is in use (its variables rest in the state of retry((), 0)).
InitHelpers ==
  /\ helper \in {HelperCall(a, m, x, f, h) :
                    a \in 0..MaxAttemptNum, m \in 0..MaxAttemptNum,
                    x \in BOOLEAN, f \in BOOLEAN, h \in BOOLEAN}
  /\ delays = <<>> /\ timeout = 0 /\ predicate = never
  /\ pc = "created" /\ path = "none" /\ clock = 0 /\ created = 0
  /\ started = NoTime /\ expiration = NoTime /\ go = FALSE /\ delay = NoDelay
  /\ taken = 0 /\ guards = 0 /\ hist = <<>> /\ sleeps = <<>> /\ notices = <<>>
  /\ predCalls = <<>> /\ propagated = <<>> /\ resumes = 0

NextHelpers ==
  \/ LogComponentFailure
  \/ LogDeleteCompleted

SpecHelpers == InitHelpers /\ [][NextHelpers]_vars

\* ------------------------------------------------------------ properties
Rounds == 1..guards

\* The handler of round k has reached its verdict.
Judged(k) == hist[k].outcome \in {"retried", "propagated"}

\* The time test and the predicate, as line 92 sees them for round k.
\* (A round whose handler never read the clock is taken at its exit.)
Now(k) == IF hist[k].decided = NoTime THEN hist[k].exit ELSE hist[k].decided
TimeOk(k) == Now(k) + hist[k].delay < expiration
Accepts(k) == predicate[hist[k].err]

\* The failure of round k reached the caller / another guard is on offer.
Reached(k) == \E i \in 1..Len(propagated) : propagated[i] = <<k, hist[k].err>>
Offered(k) == k < guards \/ (pc = "suppressed" /\ go)

\* C1 as stated: with timeout > 0, the failure e of a round with delay d is
\* suppressed and another guard offered iff now + d < deadline and
\* predicate(e), for every failure e; otherwise e reaches the caller.
C1_AsStated ==
  path = "repeated" =>
    \A k \in Rounds : Judged(k) =>
      /\ (hist[k].outcome = "retried") <=> (TimeOk(k) /\ Accepts(k))
      /\ hist[k].outcome = "retried" => Offered(k)
      /\ hist[k].outcome = "propagated" => Reached(k)

\* C1 amended: the equivalence holds for failures that are Exceptions; a
\* failure that is not an Exception always reaches the caller.
C1_RetryIffTimeAndPredicate ==
  path = "repeated" =>
    \A k \in Rounds : Judged(k) =>
      /\ hist[k].err \in Exceptions =>
            ((hist[k].outcome = "retried") <=> (TimeOk(k) /\ Accepts(k)))
      /\ hist[k].err \notin Exceptions => hist[k].outcome = "propagated"
      /\ hist[k].outcome = "retried" => Offered(k)
      /\ hist[k].outcome = "propagated" => Reached(k)

\* A retried round followed by a round whose failure the predicate accepts
\* but which is out of time.
C1_Witness ==
  /\ guards >= 2
  /\ hist[1].outcome = "retried"
  /\ hist[guards].outcome = "propagated"
  /\ hist[guards].err \in Exceptions
  /\ Accepts(guards)
  /\ ~TimeOk(guards)

\* C2: a failure that a guard lets through to the caller is the very failure
\* the operation raised in that round, which is the last round executed.
C2_PropagatesLastFailure ==
  /\ \A i \in 1..Len(propagated) :
        propagated[i][1] >= 1 =>
          /\ propagated[i][1] \in Rounds
          /\ propagated[i][2] = hist[propagated[i][1]].err
          /\ propagated[i][2] \in Failures
  /\ pc = "raised" =>
        /\ propagated # <<>>
        /\ propagated[Len(propagated)] = <<guards, hist[guards].err>>

\* The caller sees the failure of round 2 after round 1 failed differently
\* and was retried.
C2_Witness ==
  /\ pc = "raised"
  /\ guards = 2
  /\ hist[1].outcome = "retried"
  /\ hist[1].err # hist[2].err
  /\ hist[2].err \in Exceptions
  /\ propagated = <<(<<2, hist[2].err>>)>>

\* C3: with timeout = 0 exactly one guard is produced whatever the schedule
\* and the predicate; a failure in it reaches the caller at once, with no
\* sleep, no notice and no call of the predicate.
C3_TimeoutZeroOneShot ==
  timeout = 0 =>
    /\ guards <= 1
    /\ pc # "created" => guards = 1
    /\ pc \in {"created", "inScope", "succeeded", "raised", "finished"}
    /\ sleeps = <<>> /\ notices = <<>> /\ predCalls = <<>>
    /\ (guards = 1 /\ hist[1].err # NoFailure) =>
          /\ propagated = <<(<<1, hist[1].err>>)>>
          /\ hist[1].outcome = "propagated"
          /\ pc \in {"raised", "finished"}

\* Timeout 0, empty schedule, a failure the predicate would accept: it
\* reached the caller from the only guard.
C3_Witness ==
  /\ timeout = 0
  /\ delays = <<>>
  /\ pc = "raised"
  /\ guards = 1
  /\ hist[1].err \in Exceptions
  /\ predicate[hist[1].err]

\* The calls of time.sleep / log.info made for round k.
SleepsOf(k) == {i \in 1..Len(sleeps) : sleeps[i][1] = k}
NoticesOf(k) == {i \in 1..Len(notices) : notices[i][1] = k}
PropagatedOf(k) == {i \in 1..Len(propagated) : propagated[i][1] = k}

\* C4: with a predicate that is false everywhere, a positive timeout and a
\* non-empty schedule, a run has exactly one guard, and a failure in it
\* reaches the caller at once: no sleep, no notice, no second guard.
C4_NeverPredicateOneGuard ==
  ((\A e \in Failures : ~predicate[e]) /\ timeout > 0 /\ Len(delays) > 0) =>
    /\ guards <= 1
    /\ pc # "created" => guards = 1
    /\ sleeps = <<>> /\ notices = <<>>
    /\ pc \in {"created", "inScope", "caught", "judging", "succeeded", "raised", "finished"}
    /\ (guards = 1 /\ hist[1].err # NoFailure /\ pc \notin {"caught", "judging"}) =>
          /\ pc = "raised"
          /\ hist[1].outcome = "propagated"
          /\ propagated = <<(<<1, hist[1].err>>)>>

\* The always-false predicate stops a failure although the schedule and the
\* timeout would both allow another round.
C4_Witness ==
  /\ \A e \in Failures : ~predicate[e]
  /\ timeout = 3
  /\ delays = <<1, 1>>
  /\ pc = "raised"
  /\ guards = 1
  /\ hist[1].err \in Exceptions
  /\ hist[1].decided + hist[1].delay < expiration

\* C5: a round that completes without failure clears the continue flag and
\* is the last round: no later guard, no sleep, no notice and no failure for
\* it, whatever the predicate and the time left.
C5_SuccessShortCircuits ==
  \A k \in Rounds : hist[k].outcome = "success" =>
    /\ k = guards
    /\ pc \in {"succeeded", "finished"}
    /\ path = "repeated" => ~go
    /\ SleepsOf(k) = {} /\ NoticesOf(k) = {} /\ PropagatedOf(k) = {}
    /\ hist[k].err = NoFailure

\* Round 2 succeeded with time to spare and a predicate that accepts every
\* failure; the caller asked for another guard and got none.
C5_Witness ==
  /\ pc = "finished"
  /\ guards = 2
  /\ hist[2].outcome = "success"
  /\ hist[1].outcome = "retried"
  /\ \A e \in Failures : predicate[e]
  /\ clock + delay < expiration

\* C6: with timeout > 0 and schedule d_1..d_n, the guard of round k has
\* delay d_k for k <= n and d_n for k > n.
C6_DelayReuse ==
  path = "repeated" =>
    \A k \in Rounds :
      hist[k].delay = delays[IF k <= Len(delays) THEN k ELSE Len(delays)]

\* A round beyond the end of a schedule whose last value differs from its
\* first.
C6_Witness ==
  /\ path = "repeated"
  /\ Len(delays) = 2
  /\ delays[1] # delays[2]
  /\ guards = Len(delays) + 1

\* C7: every retried round has exactly one sleep, of exactly that round's
\* delay, placed after the round's failure and before the next guard; no
\* other sleep exists (none before round 1, none for a successful round,
\* none for a round whose failure reached the caller), and a guard is only
\* produced once the round before it is complete.
C7_OneSleepPerRetriedRound ==
  /\ \A i \in 1..Len(sleeps) :
        LET k == sleeps[i][1] IN
          /\ k \in Rounds
          /\ hist[k].outcome = "retried"
          /\ sleeps[i][2] = hist[k].delay
          /\ sleeps[i][3] >= hist[k].exit
          /\ k < guards => hist[k + 1].at >= sleeps[i][3] + sleeps[i][2]
          /\ i > 1 => sleeps[i - 1][1] < k
  /\ \A k \in Rounds :
        /\ Cardinality(SleepsOf(k)) = IF hist[k].outcome = "retried" THEN 1 ELSE 0
        /\ k < guards => hist[k].outcome \in {"retried", "propagated"}
        /\ k < guards => hist[k + 1].at >= hist[k].exit
  /\ pc = "suppressed" => SleepsOf(guards) # {}

\* Two retried rounds with different delays, then a round whose failure
\* reached the caller.
C7_Witness ==
  /\ pc = "raised"
  /\ guards = 3
  /\ Len(sleeps) = 2
  /\ sleeps[1][2] # sleeps[2][2]
  /\ hist[3].outcome = "propagated"

\* The delay the schedule assigns to round k, and the sum of the first k.
Scheduled(k) == delays[IF k <= Len(delays) THEN k ELSE Len(delays)]

RECURSIVE PrefixSum(_)
PrefixSum(k) == IF k = 0 THEN 0 ELSE PrefixSum(k - 1) + Scheduled(k)

\* Largest count of leading delays whose sum is below the timeout (counted
\* up to MaxGuards; prefix sums never decrease).
FittingDelays == Cardinality({k \in 1..MaxGuards : PrefixSum(k) < timeout})

RECURSIVE SleptUpTo(_)
SleptUpTo(i) == IF i = 0 THEN 0 ELSE SleptUpTo(i - 1) + sleeps[i][2]

\* C8: with a predicate that is true everywhere and an operation that fails
\* in every round, the delays slept in a run sum to less than the timeout,
\* so the run has at most 1 + K guards, K the number of leading schedule
\* delays (last value reused) whose sum is below the timeout.
C8_GuardsBoundedByDelaysThatFit ==
  ((\A e \in Failures : predicate[e]) /\ timeout > 0 /\ Len(delays) > 0
     /\ \A k \in Rounds : hist[k].outcome # "success") =>
    /\ SleptUpTo(Len(sleeps)) < timeout
    /\ guards <= 1 + FittingDelays

\* The bound is attained below the cap: K retries happened and the failure
\* of round K + 1 reached the caller.
C8_Witness ==
  /\ \A e \in Failures : predicate[e]
  /\ timeout > 0 /\ Len(delays) > 0
  /\ pc = "raised"
  /\ hist[guards].err \in Exceptions
  /\ FittingDelays >= 1
  /\ FittingDelays + 1 < MaxGuards
  /\ guards = 1 + FittingDelays
  /\ SleptUpTo(Len(sleeps)) = timeout - 1

\* C9 as stated: the deadline is creation time + timeout, so that time
\* between the call of retry() and the first request counts.
C9_AsStated == expiration # NoTime => expiration = created + timeout

\* C9 amended: the deadline is set exactly once, when the first guard is
\* requested, to that moment + timeout, and never changes afterwards; time
\* between the call of retry() and that request does not count.
C9_DeadlineFixedAtFirstRequest ==
  /\ [](/\ path = "repeated" => expiration = started + timeout
        /\ path # "repeated" => expiration = NoTime)
  /\ [][expiration # NoTime => expiration' = expiration]_vars

\* A round was retried at a moment that a deadline counted from the call of
\* retry() would have ruled out.
C9_Witness ==
  /\ path = "repeated"
  /\ started > created
  /\ \E k \in Rounds :
        /\ hist[k].outcome = "retried"
        /\ hist[k].decided + hist[k].delay >= created + timeout

\* C10 as stated: after a guard let a failure through, no further guard is
\* ever produced, also for a caller that catches the failure and iterates on.
C10_AsStated == \A k \in Rounds : hist[k].outcome = "propagated" => k = guards

\* C10 amended: after a guard let a failure through, a further guard is
\* produced only when the caller asks for one.  With timeout > 0 the flag go
\* is still set and every such request is answered with a new guard; only
\* the one-guard sequence of timeout 0 is over.
C10_NoGuardUnlessCallerIteratesOn ==
  /\ path = "single" => guards <= 1
  /\ (path = "repeated" /\ pc = "raised") => go
  /\ path = "repeated" =>
        Cardinality({k \in Rounds : k < guards /\ hist[k].outcome = "propagated"})
          = resumes

\* The caller caught the failure of round 1, which the predicate rejected,
\* asked again and is inside the scope of guard 2.
C10_Witness ==
  /\ path = "repeated"
  /\ resumes = 1
  /\ guards = 2
  /\ hist[1].outcome = "propagated"
  /\ hist[1].err \in Exceptions
  /\ ~predicate[hist[1].err]
  /\ pc = "inScope"

\* C11: the timeout never interrupts an attempt.  An attempt that began
\* before the deadline and completes normally at or after it ends the run
\* as a success: flag cleared, nothing propagated, no sleep, no later guard.
\* The deadline only matters after a failure: an Exception raised at or
\* after the deadline is never retried.
C11_TimeoutIsBestEffort ==
  path = "repeated" =>
    \A k \in Rounds :
      /\ (hist[k].outcome = "success" /\ hist[k].exit >= expiration) =>
            /\ k = guards
            /\ ~go
            /\ pc \in {"succeeded", "finished"}
            /\ PropagatedOf(k) = {} /\ SleepsOf(k) = {}
      /\ (Judged(k) /\ hist[k].err \in Exceptions /\ hist[k].exit >= expiration) =>
            (hist[k].outcome = "propagated" /\ Reached(k))
      /\ (k = guards /\ pc = "inScope") => hist[k].outcome = "open"

\* The deadline was reached while attempt 2 was in progress; it then
\* succeeded and the sequence was over.
C11_Witness ==
  /\ path = "repeated"
  /\ guards = 2
  /\ hist[2].at < expiration
  /\ hist[2].exit >= expiration
  /\ hist[2].outcome = "success"
  /\ pc = "finished"
  /\ propagated = <<>>

\* C12 as stated: with an empty schedule, whatever the timeout, first use
\* ends in an error before any guard is handed out.
C12_AsStated ==
  (Len(delays) = 0 /\ pc # "created") => (pc = "error" /\ guards = 0)

\* C12 amended: with an empty schedule and timeout > 0 the first request
\* never hands out a guard: the StopIteration of next(delays) leaves the
\* generator body and either surfaces as the interpreter's RuntimeError or
\* ends the sequence at once.  With timeout = 0 the schedule is never read:
\* one guard is handed out and the scheduler raises nothing of its own.
C12_EmptyScheduleGivesNoGuardUnlessTimeoutZero ==
  Len(delays) = 0 =>
    /\ (timeout > 0 /\ pc # "created") =>
          /\ guards = 0
          /\ pc \in {"error", "finished"}
          /\ pc = "error" => propagated = <<(<<0, GeneratorError>>)>>
          /\ pc = "finished" => propagated = <<>>
          /\ taken = 0
    /\ timeout = 0 =>
          /\ pc # "error"
          /\ pc # "created" => guards = 1
          /\ \A i \in 1..Len(propagated) : propagated[i][2] \in Failures

\* The first request on an empty schedule with a positive timeout failed.
C12_Witness ==
  /\ Len(delays) = 0
  /\ timeout > 0
  /\ pc = "error"
  /\ guards = 0

\* Every retried round moved the clock: its attempt or its sleep took time.
RoundsTakeTime ==
  \A k \in Rounds :
    hist[k].outcome = "retried" => hist[k].exit + hist[k].delay > hist[k].at

\* C13: with timeout > 0, a non-empty schedule, an operation that fails in
\* every round and a predicate that accepts everything, a run in which every
\* retried round takes at least one tick ends: a failure reaches the caller
\* and the sequence stays there, with no further guard.  (A run of at most
\* MaxGuards guards; such a run needs no more than timeout guards.)
C13_FailingRunTerminates ==
  []((timeout <= MaxGuards) /\ RoundsTakeTime) => <>[](pc = "raised")

\* The deadline, not the predicate, stopped a run that had been retried.
C13_Witness ==
  /\ pc = "raised"
  /\ guards = 3
  /\ RoundsTakeTime
  /\ \A e \in Failures : predicate[e]
  /\ hist[3].err \in Exceptions
  /\ timeout <= MaxGuards

\* C14 as stated: the give-up decision is True exactly when attemptNum is
\* past maxAttempts; the verdict is logged at error level then, at debug
\* level otherwise.
C14_AsStated ==
  helper.pc \in {"componentFailureLogged", "componentFailureRaised"} =>
    /\ helper.result = "True" <=> helper.attemptNum > helper.maxAttempts
    /\ helper.result \in {"True", "False"}
    /\ Len(helper.log) > 0
    /\ helper.log[Len(helper.log)][1] = IF helper.result = "True" THEN "error" ELSE "debug"

\* C14 amended: for a failure that has a message attribute the call
\* returns, and the decision is True exactly when attemptNum has reached
\* maxAttempts (attemptNum >= maxAttempts) and False otherwise; after the
\* exception record, which is always logged at error level, the verdict is
\* logged at error level on giving up and at debug level otherwise.
C14_GivesUpOnceCapReached ==
  /\ helper.pc = "componentFailureRaised" => ~helper.hasMessage
  /\ helper.pc = "componentFailureLogged" =>
    /\ helper.hasMessage
    /\ helper.result = "True" <=> helper.attemptNum >= helper.maxAttempts
    /\ helper.result \in {"True", "False"}
    /\ Len(helper.log) = 2
    /\ helper.log[1][1] = "error"
    /\ helper.log[2][1] = IF helper.result = "True" THEN "error" ELSE "debug"

\* The call at the cap itself: attempt 5 of 5 gives up.
C14_Witness ==
  /\ helper.pc = "componentFailureLogged"
  /\ helper.attemptNum = 5
  /\ helper.maxAttempts = 5
  /\ helper.result = "True"

\* C15: for every (existed, failure) exactly one message is written:
\* success when existed and no failure, not-found when not existed,
\* completed-with-errors when existed and failure.
C15_ExactlyOneDeleteMessage ==
  helper.pc = "deleteCompletedLogged" =>
    /\ Len(helper.log) = 1
    /\ (helper.existed /\ ~helper.failure) =>
          helper.log[1] = <<"info", "successfully deleted">>
    /\ ~helper.existed => helper.log[1] = <<"info", "no job store found">>
    /\ (helper.existed /\ helper.failure) =>
          helper.log[1] = <<"error", "completed with errors">>

\* The store existed and its deletion failed: the error message alone.
C15_Witness ==
  /\ helper.pc = "deleteCompletedLogged"
  /\ helper.existed /\ helper.failure
  /\ helper.log = << <<"error", "completed with errors">> >>

\* C16 as stated: with a positive timeout the number of schedule elements
\* taken always equals min(guards produced, schedule length).
C16_AsStated ==
  timeout > 0 =>
    taken = (IF guards < Len(delays) THEN guards ELSE Len(delays))

\* C16 amended: one element is taken per guard produced, and the request
\* that ends the sequence after a successful round takes one more (line 105
\* runs before the loop test of line 103), as far as the schedule reaches.
C16_OneElementPerRequestServed ==
  timeout > 0 =>
    LET asked == guards + (IF pc = "finished" THEN 1 ELSE 0)
    IN  taken = (IF asked < Len(delays) THEN asked ELSE Len(delays))

\* The sequence has ended after a successful first round of a schedule of
\* two: the second element has been taken although no second guard exists.
C16_Witness ==
  /\ timeout > 0
  /\ pc = "finished"
  /\ guards = 1
  /\ hist[1].outcome = "success"
  /\ Len(delays) = 2
  /\ taken = 2

\* The sleep of round j lasted exactly its delay, and the handler of round
\* j took no time between the failure and the sleep.
ExactSleep(j) ==
  \A i \in SleepsOf(j) : sleeps[i][4] = sleeps[i][3] + sleeps[i][2]
InstantDecision(j) ==
  /\ hist[j].decided = hist[j].exit
  /\ \A i \in SleepsOf(j) : sleeps[i][3] = hist[j].decided

\* C17 as stated: when the sleep lasts exactly its delay and the decision
\* takes no time, every guard after the first is produced strictly before
\* the deadline.
C17_AsStated ==
  \A k \in Rounds :
    (k > 1 /\ ExactSleep(k - 1) /\ InstantDecision(k - 1)) =>
      hist[k].at < expiration

\* C17 amended: every guard after the first is planned strictly before the
\* deadline (clock read of line 92 + delay < deadline) and produced no
\* earlier than planned; it is produced before the deadline when, on top of
\* an exact sleep and an instant decision, the caller asks for it the
\* moment the sleep ends.
C17_RetriedAttemptsPlannedBeforeDeadline ==
  \A k \in Rounds :
    k > 1 =>
      /\ hist[k - 1].decided + hist[k - 1].delay < expiration
      /\ hist[k].at >= hist[k - 1].decided + hist[k - 1].delay
      /\ (/\ ExactSleep(k - 1)
          /\ InstantDecision(k - 1)
          /\ \A i \in SleepsOf(k - 1) : hist[k].at = sleeps[i][4]) =>
            hist[k].at < expiration

\* A second guard produced one tick before the deadline, the moment the
\* exact sleep of one tick ended that an instant decision had started.
C17_Witness ==
  /\ guards >= 2
  /\ hist[1].delay = 1
  /\ ExactSleep(1) /\ InstantDecision(1)
  /\ hist[2].at = sleeps[1][4]
  /\ hist[2].at = expiration - 1

\* Rounds whose failure was swallowed, and the predicate calls of round k.
Retried == {k \in Rounds : hist[k].outcome = "retried"}
PredCallsOf(k) == {i \in 1..Len(predCalls) : predCalls[i][1] = k}

\* C18: exactly one notice per retried round, written before that round's
\* sleep and carrying the round's failure and delay; none for a successful
\* round, for a round whose failure reached the caller, or on the
\* timeout-zero path.  The notices number the swallowed failures, the round
\* that is asleep after its notice included.
C18_OneNoticePerRetriedRound ==
  /\ \A i \in 1..Len(notices) :
        LET k == notices[i][1] IN
          /\ k \in Rounds
          /\ notices[i] = <<k, hist[k].err, hist[k].delay>>
          /\ hist[k].err \in Exceptions
          /\ i > 1 => notices[i - 1][1] < k
  /\ \A k \in Rounds :
        Cardinality(NoticesOf(k)) =
          IF hist[k].outcome = "retried" \/ (k = guards /\ pc = "sleeping")
          THEN 1 ELSE 0
  /\ \A i \in 1..Len(sleeps) : NoticesOf(sleeps[i][1]) # {}
  /\ pc = "sleeping" => (NoticesOf(guards) # {} /\ SleepsOf(guards) = {})
  /\ path = "single" => notices = <<>>
  /\ Len(notices) = Cardinality(Retried) + (IF pc = "sleeping" THEN 1 ELSE 0)

\* The second retried round has written its notice and is about to sleep.
C18_Witness ==
  /\ pc = "sleeping"
  /\ guards = 2
  /\ notices = << <<1, hist[1].err, hist[1].delay>>, <<2, hist[2].err, hist[2].delay>> >>
  /\ hist[1].delay # hist[2].delay
  /\ Len(sleeps) = 1

\* C19: the predicate is called at most once per failed round, with that
\* round's failure, and only when the time test passed: never for a round
\* out of time, a successful round or on the timeout-zero path.  The calls
\* never outnumber the failed rounds.
C19_PredicateCalledOncePerTimelyFailure ==
  /\ \A i \in 1..Len(predCalls) :
        LET k == predCalls[i][1] IN
          /\ k \in Rounds
          /\ predCalls[i] = <<k, hist[k].err>>
          /\ hist[k].err \in Exceptions
          /\ hist[k].decided + hist[k].delay < expiration
  /\ \A k \in Rounds :
        /\ Cardinality(PredCallsOf(k)) <= 1
        /\ hist[k].outcome \in {"open", "success"} => PredCallsOf(k) = {}
        /\ (hist[k].outcome \in {"retried", "propagated"}
              /\ ~(Now(k) + hist[k].delay < expiration)) => PredCallsOf(k) = {}
        /\ (hist[k].outcome \in {"retried", "propagated"}
              /\ path = "repeated"
              /\ hist[k].err \in Exceptions
              /\ hist[k].decided + hist[k].delay < expiration) => PredCallsOf(k) # {}
  /\ path = "single" => predCalls = <<>>
  /\ Len(predCalls) <= Cardinality({k \in Rounds : hist[k].err # NoFailure})

\* The predicate judged round 1; round 2 failed out of time with a failure
\* the predicate would accept, and it was not asked.
C19_Witness ==
  /\ pc = "raised"
  /\ guards = 2
  /\ predCalls = << <<1, hist[1].err>> >>
  /\ hist[2].err \in Exceptions
  /\ predicate[hist[2].err]
  /\ ~(hist[2].decided + hist[2].delay < expiration)

\* C20: a failure that is not an Exception leaves the guard at once: no
\* predicate call, no notice, no sleep and no later guard, whatever the time
\* left and the predicate; the continue flag stays set.
C20_NonExceptionPropagatesUntouched ==
  \A k \in Rounds : hist[k].err \in BaseOnly =>
    /\ k = guards
    /\ pc = "raised"
    /\ hist[k].outcome = "propagated"
    /\ propagated = << <<k, hist[k].err>> >>
    /\ PredCallsOf(k) = {} /\ NoticesOf(k) = {} /\ SleepsOf(k) = {}
    /\ path = "repeated" => go = TRUE

\* An interrupt in the second round although time remains and the predicate
\* accepts it.
C20_Witness ==
  /\ path = "repeated"
  /\ pc = "raised"
  /\ guards = 2
  /\ hist[2].err \in BaseOnly
  /\ predicate[hist[2].err]
  /\ hist[2].exit + hist[2].delay < expiration
  /\ go = TRUE


TypeOK ==
  /\ helper.pc \in {"idle", "ready", "componentFailureLogged",
                    "componentFailureRaised", "deleteCompletedLogged"}
  /\ helper.result \in {"none", "None", "True", "False", "AttributeError"}
  /\ pc \in {"created", "inScope", "caught", "judging", "logging", "sleeping", "suppressed",
             "raised", "succeeded", "finished", "error"}
  /\ path \in {"none", "repeated", "single"}
  /\ guards = Len(hist)
  /\ taken \in 0..Len(delays)

====
